---- MODULE Spec2Model ----
\* Model of the simulation controller of Repository/Manufacturing_Simulation.py:
\* ManufacturingMachine, ManufacturingProcessController (start/stop, the per-wafer
\* pipeline, save_result, run_simulation and its machine_worker threads) and the
\* dashboard's Stop button, which calls stop_all_machines from the UI thread.
EXTENDS Integers, Sequences, FiniteSets, TLC

\* ---------------------------------------------------------------- bounds
\* Largest duration_seconds a run is started with (in seconds of the clock).
MaxDuration == 1
\* Largest max_wafers a run is started with.
MaxCap == 1
\* The machines stop producing when their wafer_counters add up to this value.
MaxAttempts == 2
\* Largest number of records in one results file.
MaxRecords == 2

\* ---------------------------------------------------------------- constants
\* defect_threshold = 40.0 of process_wafer_with_analysis
defect_threshold == 40
\* ThermalMachine.max_interval, the largest interval of the three machine types
ThermalMaxInterval == 12
\* MechanicalMachine.max_interval
MechanicalMaxInterval == 8
\* ElectricalMachine.max_interval
ElectricalMaxInterval == 6
\* config_LLM.DEFECT_PERCENTAGE_THRESHOLD = 40.0
DEFECT_PERCENTAGE_THRESHOLD == 40
\* get_anomalies' default threshold_percentage = 50.0
DefaultThresholdPercentage == 50

None == "None"
NoField == "NoField"
NoNum == 0 - 1
NoOne == 0
\* JSON null (Python None) as the value of a number field
Null == 0 - 2
\* datetime.now().strftime("%Y-%m-%d") at the start of the run
Today == "2026-11-05"

\* ManufacturingProcessController.__init__: the machine list, mechanical
\* machines first, then electrical, then thermal ones
MachineList(num_mechanical, num_electrical, num_thermal) ==
    [i \in 1..num_mechanical |-> [machine_type |-> "Mechanical",
                                  machine_id |-> <<"MECH", i>>,
                                  max_interval |-> MechanicalMaxInterval]]
    \o [i \in 1..num_electrical |-> [machine_type |-> "Electrical",
                                     machine_id |-> <<"ELEC", i>>,
                                     max_interval |-> ElectricalMaxInterval]]
    \o [i \in 1..num_thermal |-> [machine_type |-> "Thermal",
                                  machine_id |-> <<"THERM", i>>,
                                  max_interval |-> ThermalMaxInterval]]

\* Constructor arguments <<num_mechanical, num_electrical, num_thermal>>
OneMachine == { <<1, 0, 0>> }
TwoAlike == { <<2, 0, 0>> }
TwoUnlike == { <<0, 1, 1>> }

RECURSIVE MaxOver(_, _)
MaxOver(f, S) ==
    IF S = {} THEN 0
    ELSE LET x == CHOOSE y \in S : TRUE
             r == MaxOver(f, S \ {x})
         IN IF f[x] > r THEN f[x] ELSE r

RECURSIVE SumOver(_, _)
SumOver(f, S) ==
    IF S = {} THEN 0
    ELSE LET x == CHOOSE y \in S : TRUE IN f[x] + SumOver(f, S \ {x})

\* max_wafers = None is NoCap
NoCap == NoNum

\* Inputs of run_simulation: <<duration_seconds, max_wafers, simulation_date>>
Durations == 1..MaxDuration
Caps == {NoCap} \cup (0..MaxCap)
Dates == {None, "", "2025-01-01"}

\* Outcomes of the calls into the environment
PredictOutcomes == {"ok", "raise", "invalid"}
CountOutcomes == {"ok40", "ok41", "raise", "invalid"}
WriteOutcomes == {"written", "open_failed", "dump_failed"}

VARIABLES
    machines,           \* controller.machines
    predictor,          \* TRUE: self.predictor / self.defect_counter are set; FALSE: both None
    m_is_running,       \* machine.is_running, per machine
    wafer_counter,      \* machine.wafer_counter
    processed_wafers,   \* machine.processed_wafers
    is_running,         \* controller.is_running
    simulation_date,    \* controller.simulation_date
    results,            \* controller.results
    results_lock,       \* holder of controller.results_lock, NoOne when free
    results_file,       \* [state, content] of the file at controller.results_file
    max_wafers,         \* run_simulation's argument
    now,                \* time.time(), in seconds since start_time
    duration_seconds,   \* run_simulation's argument
    end_time,           \* run_simulation's end_time
    rs_pc, rs_i,        \* position of the thread executing run_simulation
    ui_pc, ui_i,        \* position of the UI thread in stop_all_machines
    stop_returned_at,   \* time at which the UI's stop_all_machines returned, NoNum before
    w_pc,               \* position of each machine_worker thread
    w_wafer,            \* wafer_info / analysis_result a worker holds
    date_arg,           \* the simulation_date argument the run was started with
    results_dir,        \* the results_*.json files of RESULTS_DIR, by file name
    data,               \* DataAggregator.data
    df                  \* DataAggregator.df, as the list of its rows; None has no rows

vars == << machines, predictor, m_is_running, wafer_counter, processed_wafers,
           is_running, simulation_date, results, results_lock, results_file,
           max_wafers, now, duration_seconds, end_time, rs_pc, rs_i, ui_pc, ui_i,
           stop_returned_at, w_pc, w_wafer, date_arg, results_dir, data, df >>

ctor_vars == << machines, predictor >>
machine_vars == << wafer_counter, processed_wafers >>
store_vars == << results, results_lock, results_file >>
run_vars == << max_wafers, duration_seconds, end_time, date_arg, simulation_date >>
rs_vars == << rs_pc, rs_i >>
ui_vars == << ui_pc, ui_i, stop_returned_at >>
worker_vars == << w_pc, w_wafer >>
agg_vars == << results_dir, data, df >>
\* the variables of the machines and the controller
sim_vars == << ctor_vars, m_is_running, machine_vars, is_running, store_vars, run_vars,
              now, rs_vars, ui_vars, worker_vars >>

N == Len(machines)
Workers == 1..N

\* the largest configured max_interval
LargestMaxInterval == MaxOver([w \in Workers |-> machines[w].max_interval], Workers)

\* ------------------------------------------------------------ pure helpers
\* Python truthiness of max_wafers (None and 0 are falsy)
TruthyCap(mw) == mw # NoCap /\ mw # 0
\* Python truthiness of simulation_date (None and "" are falsy)
TruthyDate(d) == d # None /\ d # ""

\* WaferId with the machine id left out of the string
WaferIdNoMachineId(w, counter) == << machines[w].machine_type, <<>>, counter >>

\* WaferId with the same sequence number for every wafer
WaferIdNoCounter(w, counter) ==
    << machines[w].machine_type, machines[w].machine_id, 1 >>

\* process_wafer: f"{machine_type}_{machine_id}_W{wafer_counter:04d}"
WaferId(w, counter) ==
    << machines[w].machine_type, machines[w].machine_id, counter >>

\* process_wafer: the wafer_info dictionary; the fields process_wafer_with_analysis
\* adds are absent
WaferInfo(w, counter) ==
    [ wafer_id |-> WaferId(w, counter),
      machine |-> w,
      analysed |-> FALSE,
      error |-> NoField,
      defect_class |-> NoField,
      confidence |-> NoNum,
      prediction_error |-> NoField,
      defect_count_error |-> NoField,
      defect_percentage |-> NoNum,
      quality_status |-> NoField,
      simulation_date |-> NoField ]

\* a worker that holds no wafer (wafer_info is None)
NoWafer == [wafer_id |-> <<>>, machine |-> NoOne, analysed |-> FALSE,
            error |-> NoField, defect_class |-> NoField, confidence |-> NoNum,
            prediction_error |-> NoField, defect_count_error |-> NoField,
            defect_percentage |-> NoNum, quality_status |-> NoField,
            simulation_date |-> NoField]

\* process_wafer_with_analysis: prediction_result, for the outcome of
\* self.predictor.predict (confidence in percent)
PredictionResult(initialised, pred) ==
    IF ~initialised
    THEN [class |-> "Unknown", conf |-> 0, error |-> "Predictor not initialized"]
    ELSE CASE pred = "ok" -> [class |-> "Scratch", conf |-> 90, error |-> NoField]
           [] pred = "invalid" ->
                 [class |-> "Unknown", conf |-> 0, error |-> "Invalid prediction result"]
           [] pred = "raise" -> [class |-> "Error", conf |-> 0, error |-> "str(e)"]

\* process_wafer_with_analysis: defect_count_result, for the outcome of
\* self.defect_counter.count_defects
DefectCountResult(initialised, cnt) ==
    IF ~initialised
    THEN [pct |-> 0, error |-> "Defect counter not initialized"]
    ELSE CASE cnt = "ok40" -> [pct |-> 40, error |-> NoField]
           [] cnt = "ok41" -> [pct |-> 41, error |-> NoField]
           [] cnt = "ok60" -> [pct |-> 60, error |-> NoField]
           [] cnt = "invalid" -> [pct |-> 0, error |-> "Invalid defect count result"]
           [] cnt = "raise" -> [pct |-> 0, error |-> "str(e)"]

\* process_wafer_with_analysis: "PASS" if defect_percentage <= defect_threshold else "FAIL"
QualityStatus(p) == IF p <= defect_threshold THEN "PASS" ELSE "FAIL"

\* process_wafer_with_analysis(wafer_info), for the given outcomes of
\* os.path.exists(image_path), predictor.predict and defect_counter.count_defects
AnalysisResult(info, initialised, image_exists, pred, cnt) ==
    IF ~image_exists
    THEN [info EXCEPT !.error = "Image not found"]
    ELSE LET pr == PredictionResult(initialised, pred)
             dc == DefectCountResult(initialised, cnt)
         IN [info EXCEPT !.analysed = TRUE,
                         !.defect_class = pr.class,
                         !.confidence = pr.conf,
                         !.prediction_error = pr.error,
                         !.defect_count_error = dc.error,
                         !.defect_percentage = dc.pct,
                         !.quality_status = QualityStatus(dc.pct)]

\* save_result: result["simulation_date"] = self.simulation_date, if it is set
WithSimulationDate(result, date) ==
    IF TruthyDate(date) THEN [result EXCEPT !.simulation_date = date] ELSE result

\* AppendResult putting the newest result first
AppendResultFront(list, result) == << result >> \o list

\* AppendResult of a save_result that loses the result
AppendResultLost(list, result) == list

\* save_result: self.results.append(result)
AppendResult(list, result) == Append(list, result)


\* ManufacturingMachine.__init__ and ManufacturingProcessController.__init__,
\* for constructor arguments in configs; scorers tells whether the defect
\* prediction system could be initialised
Construct(configs, scorers) ==
    /\ \E c \in configs : machines = MachineList(c[1], c[2], c[3])
    /\ predictor \in scorers
    /\ m_is_running = [w \in 1..Len(machines) |-> FALSE]
    /\ wafer_counter = [w \in 1..Len(machines) |-> 0]
    /\ processed_wafers = [w \in 1..Len(machines) |-> 0]
    /\ is_running = FALSE
    /\ simulation_date = None
    /\ results = <<>>
    /\ results_lock = NoOne
    /\ results_file = [state |-> "absent", content |-> <<>>]
    /\ max_wafers = NoCap
    /\ now = 0
    /\ duration_seconds = 0
    /\ end_time = 0
    /\ rs_pc = "idle"
    /\ rs_i = 1
    /\ ui_pc = "idle"
    /\ ui_i = 1
    /\ stop_returned_at = NoNum
    /\ w_pc = [w \in 1..Len(machines) |-> "none"]
    /\ w_wafer = [w \in 1..Len(machines) |-> NoWafer]
    /\ date_arg = None

\* DataAggregator.__init__: self.df = None
NoFrame == << >>

\* DataAggregator.__init__: self.data = []; in a process that only runs the
\* simulation the results directory plays no part
NoAggregator ==
    /\ results_dir = << >>
    /\ data = << >>
    /\ df = NoFrame

\* ------------------------------------------------- run_simulation's thread
\* run_simulation: set self.simulation_date, then enter start_all_machines
RunSimulationBegin(duration, mw, d) ==
    /\ rs_pc = "idle"
    /\ simulation_date' = (IF d = None THEN Today ELSE d)
    /\ date_arg' = d
    /\ max_wafers' = mw
    /\ duration_seconds' = duration
    /\ rs_pc' = "start"
    /\ rs_i' = 1
    /\ UNCHANGED agg_vars
    /\ UNCHANGED << ctor_vars, m_is_running, machine_vars, is_running, store_vars,
                    now, end_time, ui_vars, worker_vars >>

\* start_all_machines: machine.start() for the next machine
StartMachine ==
    /\ rs_pc = "start"
    /\ rs_i <= N
    /\ m_is_running' = [m_is_running EXCEPT ![rs_i] = TRUE]
    /\ rs_i' = rs_i + 1
    /\ UNCHANGED agg_vars
    /\ UNCHANGED << ctor_vars, machine_vars, is_running, store_vars, run_vars, now,
                    rs_pc, ui_vars, worker_vars >>

\* start_all_machines: self.is_running = True; then start_time and end_time
StartFlag ==
    /\ rs_pc = "start"
    /\ rs_i = N + 1
    /\ is_running' = TRUE
    /\ end_time' = now + duration_seconds
    /\ rs_pc' = "spawn"
    /\ rs_i' = 1
    /\ UNCHANGED agg_vars
    /\ UNCHANGED << ctor_vars, m_is_running, machine_vars, store_vars, max_wafers,
                    duration_seconds, date_arg, simulation_date, now, ui_vars,
                    worker_vars >>

\* run_simulation: threading.Thread(target=machine_worker, ...).start()
SpawnWorker ==
    /\ rs_pc = "spawn"
    /\ rs_i <= N
    /\ w_pc' = [w_pc EXCEPT ![rs_i] = "top"]
    /\ rs_i' = rs_i + 1
    /\ rs_pc' = (IF rs_i = N THEN "loop" ELSE "spawn")
    /\ UNCHANGED agg_vars
    /\ UNCHANGED << ctor_vars, m_is_running, machine_vars, is_running, store_vars,
                    run_vars, now, ui_vars, w_wafer >>

\* run_simulation: the test of "while time.time() < end_time: time.sleep(1)"
SupervisorMayLeave == ~(now < end_time)

\* run_simulation: the supervisory loop is left
SupervisorExit ==
    /\ rs_pc = "loop"
    /\ SupervisorMayLeave
    /\ rs_pc' = "stop"
    /\ rs_i' = 1
    /\ UNCHANGED agg_vars
    /\ UNCHANGED << ctor_vars, m_is_running, machine_vars, is_running, store_vars,
                    run_vars, now, ui_vars, worker_vars >>

\* stop_all_machines, called by run_simulation: machine.stop() for the next machine
RunStopMachine ==
    /\ rs_pc = "stop"
    /\ rs_i <= N
    /\ m_is_running' = [m_is_running EXCEPT ![rs_i] = FALSE]
    /\ rs_i' = rs_i + 1
    /\ UNCHANGED agg_vars
    /\ UNCHANGED << ctor_vars, machine_vars, is_running, store_vars, run_vars, now,
                    rs_pc, ui_vars, worker_vars >>

\* stop_all_machines, called by run_simulation: self.is_running = False
RunStopFlag ==
    /\ rs_pc = "stop"
    /\ rs_i = N + 1
    /\ is_running' = FALSE
    /\ rs_pc' = "join"
    /\ rs_i' = 1
    /\ UNCHANGED agg_vars
    /\ UNCHANGED << ctor_vars, m_is_running, machine_vars, store_vars, run_vars, now,
                    ui_vars, worker_vars >>

\* JoinReturns of a join without timeout
JoinReturnsFinishedOnly(pc) == pc \in {"exit", "dead"}

\* JoinReturns of a join that gives up on a thread wherever it is
JoinReturnsAnywhere(pc) == TRUE

\* thread.join(timeout=5) can return: the thread has finished, or it is in the
\* sleep between two iterations (at least min_interval = 5 seconds long), which
\* outlasts the timeout
JoinReturns(pc) == pc \in {"exit", "dead", "top"}

\* run_simulation: thread.join(timeout=5) returns for the next thread
JoinWorker ==
    /\ rs_pc = "join"
    /\ rs_i <= N
    /\ JoinReturns(w_pc[rs_i])
    /\ rs_i' = rs_i + 1
    /\ UNCHANGED agg_vars
    /\ UNCHANGED << ctor_vars, m_is_running, machine_vars, is_running, store_vars,
                    run_vars, now, rs_pc, ui_vars, worker_vars >>

\* run_simulation: total_processed, print_summary, return
RunSimulationReturn ==
    /\ rs_pc = "join"
    /\ rs_i = N + 1
    /\ rs_pc' = "done"
    /\ UNCHANGED agg_vars
    /\ UNCHANGED << ctor_vars, m_is_running, machine_vars, is_running, store_vars,
                    run_vars, now, rs_i, ui_vars, worker_vars >>

\* ------------------------------------------------------------ the UI thread
\* Stop Simulation button: controller.stop_all_machines() is entered
UIStopBegin ==
    /\ ui_pc = "idle"
    /\ rs_pc \notin {"idle", "done"}
    /\ ui_pc' = "stop"
    /\ ui_i' = 1
    /\ UNCHANGED agg_vars
    /\ UNCHANGED << ctor_vars, m_is_running, machine_vars, is_running, store_vars,
                    run_vars, now, rs_vars, stop_returned_at, worker_vars >>

\* stop_all_machines, called by the UI: machine.stop() for the next machine
UIStopMachine ==
    /\ ui_pc = "stop"
    /\ ui_i <= N
    /\ m_is_running' = [m_is_running EXCEPT ![ui_i] = FALSE]
    /\ ui_i' = ui_i + 1
    /\ UNCHANGED agg_vars
    /\ UNCHANGED << ctor_vars, machine_vars, is_running, store_vars, run_vars, now,
                    rs_vars, ui_pc, stop_returned_at, worker_vars >>

\* stop_all_machines, called by the UI: self.is_running = False, and return
UIStopFlag ==
    /\ ui_pc = "stop"
    /\ ui_i = N + 1
    /\ is_running' = FALSE
    /\ ui_pc' = "returned"
    /\ stop_returned_at' = now
    /\ UNCHANGED agg_vars
    /\ UNCHANGED << ctor_vars, m_is_running, machine_vars, store_vars, run_vars, now,
                    rs_vars, ui_i, worker_vars >>

\* ------------------------------------------------------------------ time
\* One second passes. The clock starts with start_time = time.time() and runs
\* while run_simulation sleeps in its supervisory loop; the steps of
\* start_all_machines, stop_all_machines and of starting the threads take no time.
Tick ==
    /\ rs_pc = "loop"
    /\ ui_pc # "stop"
    /\ now < end_time
    /\ now' = now + 1
    /\ UNCHANGED agg_vars
    /\ UNCHANGED << ctor_vars, m_is_running, machine_vars, is_running, store_vars,
                    run_vars, rs_vars, ui_vars, worker_vars >>

\* ------------------------------------------------------- machine_worker(w)
\* machine_worker: "while self.is_running and time.time() < end_time"; the
\* sleep that ends the previous iteration has returned
WorkerLoopTest(w) ==
    /\ w_pc[w] = "top"
    /\ w_pc' = [w_pc EXCEPT ![w] = IF is_running /\ now < end_time THEN "cap" ELSE "exit"]
    /\ UNCHANGED agg_vars
    /\ UNCHANGED << ctor_vars, m_is_running, machine_vars, is_running, store_vars,
                    run_vars, now, rs_vars, ui_vars, w_wafer >>

\* CapReached of a check written with > in place of >=
CapReachedStrict(mw, list) == TruthyCap(mw) /\ Len(list) > mw

\* machine_worker: "if max_wafers and len(self.results) >= max_wafers: break"
CapReached(mw, list) == TruthyCap(mw) /\ Len(list) >= mw

\* LockFree of a save_result that does not wait for the lock
LockFreeAlways == TRUE

\* "with self.results_lock": the lock can be taken
LockFree == results_lock = NoOne

\* machine_worker: the cap check, made with results_lock held
WorkerCapCheck(w) ==
    /\ w_pc[w] = "cap"
    /\ LockFree
    /\ w_pc' = [w_pc EXCEPT ![w] = IF CapReached(max_wafers, results) THEN "exit"
                                   ELSE "produce"]
    /\ UNCHANGED agg_vars
    /\ UNCHANGED << ctor_vars, m_is_running, machine_vars, is_running, store_vars,
                    run_vars, now, rs_vars, ui_vars, w_wafer >>

\* machine_worker: wafer_info = machine.process_wafer(), and, when there is one,
\* analysis_result = self.process_wafer_with_analysis(wafer_info). image_ok is
\* whether generate_image returned a path; the other three are the outcomes of
\* os.path.exists, predict and count_defects. Without a wafer the worker goes
\* to sleep and to the next iteration.
WorkerProcessWafer(w, image_ok, image_exists, pred, cnt) ==
    /\ w_pc[w] = "produce"
    /\ IF ~m_is_running[w]
       THEN /\ w_pc' = [w_pc EXCEPT ![w] = "top"]
            /\ UNCHANGED << machine_vars, w_wafer >>
       ELSE /\ SumOver(wafer_counter, Workers) < MaxAttempts
            /\ wafer_counter' = [wafer_counter EXCEPT ![w] = @ + 1]
            /\ IF image_ok
               THEN /\ processed_wafers' = [processed_wafers EXCEPT ![w] = @ + 1]
                    /\ w_wafer' = [w_wafer EXCEPT ![w] =
                          AnalysisResult(WaferInfo(w, wafer_counter'[w]), predictor,
                                         image_exists, pred, cnt)]
                    /\ w_pc' = [w_pc EXCEPT ![w] = "save"]
               ELSE /\ w_pc' = [w_pc EXCEPT ![w] = "top"]
                    /\ UNCHANGED << processed_wafers, w_wafer >>
    /\ UNCHANGED agg_vars
    /\ UNCHANGED << ctor_vars, m_is_running, is_running, store_vars, run_vars, now,
                    rs_vars, ui_vars >>

\* save_result: results_lock is taken, the date attached, the result appended
SaveAppend(w) ==
    /\ w_pc[w] = "save"
    /\ LockFree
    /\ results_lock' = w
    /\ results' = AppendResult(results, WithSimulationDate(w_wafer[w], simulation_date))
    /\ w_wafer' = [w_wafer EXCEPT ![w] = WithSimulationDate(@, simulation_date)]
    /\ w_pc' = [w_pc EXCEPT ![w] = "write"]
    /\ UNCHANGED agg_vars
    /\ UNCHANGED << ctor_vars, m_is_running, machine_vars, is_running, results_file,
                    run_vars, now, rs_vars, ui_vars >>

\* FileAfterWrite of a save_result that writes only the newest record
FileAfterWriteLastOnly(file, list, outcome) ==
    [state |-> "ok", content |-> << list[Len(list)] >>]

\* The file after save_result's "with open(results_file, 'w') as f:
\* json.dump(self.results, f)": written whole, left as it was when open raised,
\* or truncated when json.dump raised
FileAfterWrite(file, list, outcome) ==
    CASE outcome = "written" -> [state |-> "ok", content |-> list]
      [] outcome = "open_failed" -> file
      [] outcome = "dump_failed" -> [state |-> "torn", content |-> <<>>]

\* AfterSave of a log line that also fails on a sentinel prediction
AfterSaveStrict(result) ==
    IF result.analysed /\ result.prediction_error = NoField THEN "top" ELSE "dead"

\* machine_worker after save_result: logger.info(... analysis_result['prediction']
\* ...) raises KeyError on a result without the prediction block, which ends the
\* thread; otherwise the worker sleeps and goes to its next iteration
AfterSave(result) == IF result.analysed THEN "top" ELSE "dead"

\* save_result: the file is rewritten (an exception is logged and swallowed)
\* and results_lock released; then the worker logs the result
SaveWrite(w, outcome) ==
    /\ w_pc[w] = "write"
    /\ results_lock = w
    /\ results_file' = FileAfterWrite(results_file, results, outcome)
    /\ results_lock' = NoOne
    /\ w_pc' = [w_pc EXCEPT ![w] = AfterSave(w_wafer[w])]
    /\ w_wafer' = [w_wafer EXCEPT ![w] = NoWafer]
    /\ UNCHANGED agg_vars
    /\ UNCHANGED << ctor_vars, m_is_running, machine_vars, is_running, results,
                    run_vars, now, rs_vars, ui_vars >>

\* ------------------------------------------------------------ DataAggregator
\* Records as save_result writes them, each given by <<wafer_counter, outcome of
\* os.path.exists, of predict, of count_defects, simulation_date of the run>>:
\* 40 % and PASS; 41 % and FAIL; twice 60 % and FAIL, on different dates and
\* with different classes; both scorers raising in a run started with date "";
\* image not found.
AggOutcomes ==
    { << 1, TRUE, "ok", "ok40", "2025-01-01" >>,
      << 2, TRUE, "ok", "ok41", "2025-01-01" >>,
      << 3, TRUE, "ok", "ok60", "2025-01-02" >>,
      << 4, TRUE, "invalid", "ok60", "2025-01-01" >>,
      << 5, TRUE, "raise", "raise", "" >>,
      << 6, FALSE, "ok", "ok40", "2025-01-01" >> }

\* machine_worker and save_result: the record stored for an outcome
StoredRecord(o) ==
    WithSimulationDate(AnalysisResult(WaferInfo(1, o[1]), TRUE, o[2], o[3], o[4]), o[5])

AggRecords == { StoredRecord(o) : o \in AggOutcomes }

SeqsUpTo(S, n) == UNION { [1..k -> S] : k \in 0..n }

\* A results file: not there, holding the list json.dump wrote, or cut short by
\* a json.dump that raised
Files(records) ==
    { [state |-> "absent", content |-> << >>], [state |-> "torn", content |-> << >>] }
    \cup { [state |-> "ok", content |-> c] : c \in SeqsUpTo(records, MaxRecords) }

\* The results directory: the file of the latest run and the file of an older
\* run, in the order of sorted(glob("results_*.json"), key=st_mtime, reverse=True)
ResultsDirs(records) == [1..2 -> Files(records)]

\* load_results: all_results, the readable files' lists one after the other; a
\* file json.load fails on is skipped
RECURSIVE LoadedFrom(_)
LoadedFrom(files) ==
    IF files = << >> THEN << >>
    ELSE (IF Head(files).state = "ok" THEN Head(files).content ELSE << >>)
         \o LoadedFrom(Tail(files))

\* DataAfterLoad of a load_results that extends self.data
DataAfterLoadMerging(old_data, files) == old_data \o LoadedFrom(files)

\* load_results: self.data after the call; all_results starts empty, so the
\* old self.data plays no part
DataAfterLoad(old_data, files) == LoadedFrom(files)

\* load_results: "if self.data: self.df = pd.DataFrame(self.data)", and nothing
\* otherwise: self.df stays what it was
DfAfterLoad(old_df, new_data) == IF new_data # << >> THEN new_data ELSE old_df

\* load_results(), as all callers call it: without a file_path
LoadResults ==
    /\ data' = DataAfterLoad(data, results_dir)
    /\ df' = DfAfterLoad(df, data')
    /\ UNCHANGED << results_dir, sim_vars >>

\* RunFileSeen of a reader that gets, in the middle of a write, the record
\* being written
RunFileSeenLastRecord ==
    IF \E w \in Workers : w_pc[w] = "write"
    THEN { results_file, [state |-> "ok", content |-> << results[Len(results)] >>] }
    ELSE { results_file }

\* What open(results_file, 'r') and json.load find while the controller runs:
\* the file as the last write left it or, when a worker is inside
\* "with open(results_file, 'w')" and json.dump, a truncated or half-written
\* text that json.load fails on
RunFileSeen ==
    IF \E w \in Workers : w_pc[w] = "write"
    THEN { results_file, [state |-> "torn", content |-> << >>] }
    ELSE { results_file }

\* load_results(file_path = controller.results_file) during a run
LoadRunFile ==
    /\ rs_pc # "idle"
    /\ \E f \in RunFileSeen :
          data' = DataAfterLoad(data, << f >>)
    /\ df' = DfAfterLoad(df, data')
    /\ UNCHANGED << results_dir, sim_vars >>

\* save_result of a running simulation rewrites the latest file with one more
\* record
FileRewritten(r) ==
    /\ results_dir[1].state \in {"absent", "ok"}
    /\ Len(results_dir[1].content) < MaxRecords
    /\ results_dir' = [results_dir EXCEPT ![1] =
                          [state |-> "ok", content |-> Append(@.content, r)]]
    /\ UNCHANGED << data, df, sim_vars >>

\* a results file is deleted, or left unreadable by a json.dump that raised
FileLost(i, state) ==
    /\ results_dir[i].state = "ok"
    /\ results_dir' = [results_dir EXCEPT ![i] = [state |-> state, content |-> << >>]]
    /\ UNCHANGED << data, df, sim_vars >>

\* RoundDiv that cuts off instead of rounding
TruncDiv(a, b) == a \div b

\* round(a / b, ...) to the nearest unit, for a >= 0 and b > 0
RoundDiv(a, b) == (2 * a + b) \div (2 * b)

RECURSIVE SumSeq(_)
SumSeq(q) == IF q = << >> THEN 0 ELSE Head(q) + SumSeq(Tail(q))

\* the mean of a list of numbers, in hundredths: round(sum / len * 100);
\* 0 for the empty list
MeanHundredths(q) == IF q = << >> THEN 0 ELSE RoundDiv(SumSeq(q) * 100, Len(q))

\* filter_by_simulation_date
FilterBySimulationDate(d, date) ==
    IF d = << >> THEN << >>
    ELSE LET OnDate(r) == r.simulation_date = date IN SelectSeq(d, OnDate)

\* PassCount counting every record that is not FAIL
PassCountNotFail(d) == Cardinality({ i \in DOMAIN d : d[i].quality_status # "FAIL" })

\* get_summary_statistics: sum(1 for r in self.data if r.get("quality_status") == "PASS")
PassCount(d) == Cardinality({ i \in DOMAIN d : d[i].quality_status = "PASS" })

\* get_summary_statistics: the defect percentages that are not None
DefectPercentages(d) ==
    LET Has(r) == r.defect_percentage \notin {NoNum, Null}
        kept == SelectSeq(d, Has)
    IN [i \in DOMAIN kept |-> kept[i].defect_percentage]

\* get_summary_statistics: the confidence scores that are not None
Confidences(d) ==
    LET Has(r) == r.confidence # NoNum
        kept == SelectSeq(d, Has)
    IN [i \in DOMAIN kept |-> kept[i].confidence]

\* get_summary_statistics on self.data = d; a rate is the pair <<numerator,
\* denominator>> of the unrounded quotient, an average is in hundredths
GetSummaryStatistics(d) ==
    IF d = << >> THEN [error |-> << "No data loaded" >>]
    ELSE [ total_wafers |-> Len(d),
           pass_count |-> PassCount(d),
           fail_count |-> Len(d) - PassCount(d),
           pass_rate |-> << PassCount(d) * 100, Len(d) >>,
           fail_rate |-> << (Len(d) - PassCount(d)) * 100, Len(d) >>,
           average_defect_percentage |-> MeanHundredths(DefectPercentages(d)),
           average_confidence |-> MeanHundredths(Confidences(d)) ]

\* GetDailyStatistics without the date filter
GetDailyStatisticsUnfiltered(d, date) == GetSummaryStatistics(d)

\* get_daily_statistics(simulation_date)
GetDailyStatistics(d, date) ==
    LET daily_data == FilterBySimulationDate(d, date)
    IN IF daily_data = << >> THEN [error |-> << "No data found for date", date >>]
       ELSE GetSummaryStatistics(daily_data)

\* result.get("defect_percentage", 0): 0 for a record without the key
DefectPctOrZero(r) == IF r.defect_percentage = NoNum THEN 0 ELSE r.defect_percentage

\* InsertDesc putting the new element before the elements of equal key
RECURSIVE InsertDescBeforeEquals(_, _)
InsertDescBeforeEquals(q, x) ==
    IF q = << >> THEN << x >>
    ELSE IF DefectPctOrZero(Head(q)) > DefectPctOrZero(x)
         THEN << Head(q) >> \o InsertDescBeforeEquals(Tail(q), x)
         ELSE << x >> \o q

\* list.sort(key=..., reverse=True) is stable: an element goes behind the
\* elements of greater or equal key that were before it
RECURSIVE InsertDesc(_, _)
InsertDesc(q, x) ==
    IF q = << >> THEN << x >>
    ELSE IF DefectPctOrZero(Head(q)) >= DefectPctOrZero(x)
         THEN << Head(q) >> \o InsertDesc(Tail(q), x)
         ELSE << x >> \o q

\* anomalies.sort(key=lambda x: x.get("defect_percentage", 0), reverse=True)
RECURSIVE SortByDefectPctDesc(_)
SortByDefectPctDesc(q) ==
    IF q = << >> THEN << >>
    ELSE InsertDesc(SortByDefectPctDesc(SubSeq(q, 1, Len(q) - 1)), q[Len(q)])

\* get_anomalies and get_date_statistics: "defect_pct > threshold" raises
\* TypeError when defect_pct is None
ComparisonRaises(r) == r.defect_percentage = Null

\* get_anomalies raises on self.data = d
GetAnomaliesRaises(d) == \E i \in DOMAIN d : ComparisonRaises(d[i])

\* get_anomalies(threshold_percentage) on self.data = d, when it does not raise
GetAnomalies(d, threshold_percentage) ==
    IF d = << >> THEN << >>
    ELSE LET Exceeds(r) == DefectPctOrZero(r) > threshold_percentage
         IN SortByDefectPctDesc(SelectSeq(d, Exceeds))

\* the thresholds get_anomalies is called with
Thresholds == {0, DEFECT_PERCENTAGE_THRESHOLD, DefaultThresholdPercentage, 100}

\* get_date_statistics: "if not sim_date: continue"
HasSimulationDate(r) == r.simulation_date \notin {NoField, ""}

\* get_date_statistics: the keys of date_stats
DatesIn(d) == { d[i].simulation_date : i \in { j \in DOMAIN d : HasSimulationDate(d[j]) } }

\* get_date_statistics raises on self.data = d
GetDateStatisticsRaises(d) ==
    \E i \in DOMAIN d : HasSimulationDate(d[i]) /\ ComparisonRaises(d[i])

\* get_date_statistics on self.data = d, when it does not raise; the list of
\* percentages holds result.get('defect_percentage', 0) of every record of the date
GetDateStatistics(d) ==
    [ date \in DatesIn(d) |->
        LET on_date == FilterBySimulationDate(d, date)
            pcts == [i \in DOMAIN on_date |-> DefectPctOrZero(on_date[i])]
            Anomalous(r) == DefectPctOrZero(r) > DEFECT_PERCENTAGE_THRESHOLD
        IN [ total_wafers |-> Len(on_date),
             pass_count |-> PassCount(on_date),
             fail_count |-> Len(on_date) - PassCount(on_date),
             pass_rate |-> RoundDiv(PassCount(on_date) * 10000, Len(on_date)),
             avg_defect_percentage |-> MeanHundredths(pcts),
             anomalies |-> Len(SelectSeq(on_date, Anomalous)) ] ]

\* get_defect_distribution: result.get("prediction", {}).get("Defect Class", "Unknown")
DefectClassOf(r) == IF r.defect_class = NoField THEN "Unknown" ELSE r.defect_class

\* get_defect_distribution on self.data = d: {} without data; percentages in
\* hundredths
GetDefectDistribution(d) ==
    IF d = << >> THEN << >>
    ELSE LET classes == { DefectClassOf(d[i]) : i \in DOMAIN d }
             defect_counts == [k \in classes |->
                                 Cardinality({ i \in DOMAIN d : DefectClassOf(d[i]) = k })]
             total == Len(d)
         IN [ counts |-> defect_counts,
              percentages |-> [k \in classes |-> RoundDiv(defect_counts[k] * 10000, total)] ]

\* format_for_llm on self.data = d: the KeyError it raises, or the figures of
\* the report it returns. summary['total_wafers'] is read first, then
\* defect_dist['counts'].
FormatForLlm(d) ==
    LET summary == GetSummaryStatistics(d)
        defect_dist == GetDefectDistribution(d)
        anomalies == GetAnomalies(d, DefaultThresholdPercentage)
    IN IF "total_wafers" \notin DOMAIN summary
       THEN [raised |-> "KeyError: 'total_wafers'"]
       ELSE IF "counts" \notin DOMAIN defect_dist
       THEN [raised |-> "KeyError: 'counts'"]
       ELSE [ total_wafers |-> summary.total_wafers,
              pass_count |-> summary.pass_count,
              fail_count |-> summary.fail_count,
              counts |-> defect_dist.counts,
              anomalies |-> Len(anomalies) ]

\* ------------------------------------------------------------ specification
\* run_simulation is called with one of the given argument triples
Begin(runs) == \E r \in runs : RunSimulationBegin(r[1], r[2], r[3])

\* the thread of run_simulation, and the clock
Controller ==
    \/ StartMachine
    \/ StartFlag
    \/ SpawnWorker
    \/ SupervisorExit
    \/ RunStopMachine
    \/ RunStopFlag
    \/ JoinWorker
    \/ RunSimulationReturn
    \/ Tick

\* the Stop Simulation button
StopButton ==
    \/ UIStopBegin
    \/ UIStopMachine
    \/ UIStopFlag

\* the machine_worker threads, with the environment's outcomes drawn from the
\* given sets
Worker(gen, exists, preds, cnts, writes) ==
    \/ \E w \in Workers : WorkerLoopTest(w)
    \/ \E w \in Workers : WorkerCapCheck(w)
    \/ \E w \in Workers, image_ok \in gen, image_exists \in exists,
          pred \in preds, cnt \in cnts :
          WorkerProcessWafer(w, image_ok, image_exists, pred, cnt)
    \/ \E w \in Workers : SaveAppend(w)
    \/ \E w \in Workers, outcome \in writes : SaveWrite(w, outcome)

\* Two machines of one type run to the end of the configured duration, for every cap; the
\* scorer works, images may fail to be generated or be missing, writes may fail.
Init == Construct(TwoAlike, {TRUE}) /\ NoAggregator

Next ==
    \/ Begin(Durations \X Caps \X {"2025-01-01"})
    \/ Controller
    \/ Worker(BOOLEAN, BOOLEAN, {"ok"}, {"ok40", "ok41"}, WriteOutcomes)

Spec == Init /\ [][Next]_vars

\* One machine, with every outcome of the scorer and every simulation_date.
InitPipeline == Construct(OneMachine, BOOLEAN) /\ NoAggregator

NextPipeline ==
    \/ Begin(Durations \X {NoCap} \X Dates)
    \/ Controller
    \/ Worker(BOOLEAN, BOOLEAN, PredictOutcomes, CountOutcomes, {"written"})

SpecPipeline == InitPipeline /\ [][NextPipeline]_vars

\* Two machines of different types and the Stop Simulation button.
InitStop == Construct(TwoUnlike, {TRUE}) /\ NoAggregator

NextStop ==
    \/ Begin(Durations \X {NoCap} \X {"2025-01-01"})
    \/ Controller
    \/ StopButton
    \/ Worker({TRUE}, {TRUE}, {"ok"}, {"ok41"}, {"written"})

SpecStop == InitStop /\ [][NextStop]_vars

\* The Stop Simulation button in a run configured to last longer than a
\* machine cycle.
NextLong ==
    \/ Begin({LargestMaxInterval + 3} \X {NoCap} \X {"2025-01-01"})
    \/ Controller
    \/ StopButton
    \/ Worker({TRUE}, {TRUE}, {"ok"}, {"ok41"}, {"written"})

SpecLong == InitStop /\ [][NextLong]_vars

\* the workers of the machines of TwoUnlike
FairWorkers ==
    LET c == CHOOSE x \in TwoUnlike : TRUE IN 1..(c[1] + c[2] + c[3])

\* Scheduling: the thread of run_simulation and the clock go on; a
\* stop_all_machines() call of the UI, once entered, runs to its end; a worker
\* that is not asleep between two iterations goes on with its iteration.
\* Nothing makes a sleeping worker wake up.
Fairness ==
    /\ WF_vars(Controller)
    /\ WF_vars(UIStopMachine \/ UIStopFlag)
    /\ \A w \in FairWorkers :
          /\ WF_vars(WorkerCapCheck(w))
          /\ WF_vars(\E pred \in PredictOutcomes, cnt \in CountOutcomes :
                        WorkerProcessWafer(w, TRUE, TRUE, pred, cnt))
          /\ WF_vars(SaveAppend(w))
          /\ WF_vars(SaveWrite(w, "written"))

\* a sleeping worker wakes up and makes its loop test
WorkersWake == \A w \in FairWorkers : WF_vars(WorkerLoopTest(w))

SpecFair == InitStop /\ [][NextStop]_vars /\ Fairness

\* The Stop Simulation button, its stop_all_machines() returning only when
\* start_all_machines() has completed, so that no machine.start() follows it.
NextNoRestart ==
    \/ Begin(Durations \X {NoCap} \X {"2025-01-01"})
    \/ Controller
    \/ UIStopBegin
    \/ UIStopMachine
    \/ (UIStopFlag /\ rs_pc # "start")
    \/ Worker({TRUE}, {TRUE}, {"ok"}, {"ok41"}, {"written"})

SpecNoRestart == InitStop /\ [][NextNoRestart]_vars

\* The aggregator over a results directory of simulator-written files, while a
\* simulation may add records to the latest file.
InitAggregator ==
    /\ Construct(OneMachine, {TRUE})
    /\ results_dir \in ResultsDirs(AggRecords)
    /\ data = << >>
    /\ df = NoFrame

NextAggregator ==
    \/ LoadResults
    \/ \E r \in AggRecords : FileRewritten(r)

SpecAggregator == InitAggregator /\ [][NextAggregator]_vars

\* A run of two machines whose result file an aggregator loads at any moment.
InitReader == Construct(TwoAlike, {TRUE}) /\ NoAggregator

NextReader ==
    \/ Begin(Durations \X {NoCap} \X {"2025-01-01"})
    \/ Controller
    \/ Worker({TRUE}, {TRUE}, {"ok"}, {"ok41"}, WriteOutcomes)
    \/ LoadRunFile

SpecReader == InitReader /\ [][NextReader]_vars

\* the records of the files that come and go: a PASS and a FAIL record
ReloadRecords ==
    { StoredRecord(<< 1, TRUE, "ok", "ok40", "2025-01-01" >>),
      StoredRecord(<< 2, TRUE, "ok", "ok41", "2025-01-01" >>) }

\* The aggregator reloading from a results directory whose files are written,
\* deleted and left unreadable between the loads.
InitReload ==
    /\ Construct(OneMachine, {TRUE})
    /\ results_dir \in ResultsDirs(ReloadRecords)
    /\ data = << >>
    /\ df = NoFrame

NextReload ==
    \/ LoadResults
    \/ \E r \in ReloadRecords : FileRewritten(r)
    \/ \E i \in DOMAIN results_dir, state \in {"absent", "torn"} : FileLost(i, state)

SpecReload == InitReload /\ [][NextReload]_vars

\* a record of a results file whose defect_percentage is null
NullPercentageRecord ==
    [StoredRecord(<< 7, TRUE, "ok", "ok41", "2025-01-01" >>) EXCEPT !.defect_percentage = Null]

\* The aggregator over files that may also hold a record with a null field.
InitMalformed ==
    /\ Construct(OneMachine, {TRUE})
    /\ results_dir \in ResultsDirs(AggRecords \cup {NullPercentageRecord})
    /\ data = << >>
    /\ df = NoFrame

NextMalformed ==
    \/ LoadResults
    \/ \E r \in AggRecords \cup {NullPercentageRecord} : FileRewritten(r)

SpecMalformed == InitMalformed /\ [][NextMalformed]_vars

\* ------------------------------------------------------------------ claims
\* C1: in a run with max_wafers = k >= 1 that produced at least k wafers, the
\* result store holds exactly k records once run_simulation has completed.
C1_ExactlyCapRecords ==
    (rs_pc = "done" /\ max_wafers >= 1 /\ Len(results) >= max_wafers)
        => Len(results) = max_wafers

\* C2: once the UI's stop_all_machines() has returned, run_simulation has
\* returned at the latest one machine cycle (the largest max_interval) later.
C2_StoppedWithinOneCycle ==
    (stop_returned_at # NoNum /\ now - stop_returned_at > LargestMaxInterval)
        => rs_pc = "done"

\* C3: after the UI's stop_all_machines() has returned (the only
\* start_all_machines() call began before it), is_running is false for the
\* controller and for every machine.
C3_StoppedStaysStopped ==
    ui_pc = "returned" => (~is_running /\ \A w \in Workers : ~m_is_running[w])

\* C4: every record of the result store has quality_status PASS or FAIL, and
\* PASS exactly when its defect_percentage is at most 40.
C4_QualityStatusConsistent ==
    \A i \in DOMAIN results :
        /\ results[i].quality_status \in {"PASS", "FAIL"}
        /\ results[i].quality_status = "PASS"
              <=> results[i].defect_percentage <= defect_threshold

\* C5: no two records of the result store have the same wafer_id.
C5_UniqueWaferIds ==
    \A i, j \in DOMAIN results : i # j => results[i].wafer_id # results[j].wafer_id

\* C5 witness: two machines have each stored a wafer with the same sequence number
C5_Witness ==
    \E i, j \in DOMAIN results :
        /\ results[i].machine # results[j].machine
        /\ results[i].wafer_id[3] = results[j].wafer_id[3]

\* C6: the result store is append-only: in every step the old list is a prefix
\* of the new one.
C6_AppendOnly ==
    [][ /\ Len(results') >= Len(results)
        /\ SubSeq(results', 1, Len(results)) = results ]_vars

\* C6 witness: a second record has been appended behind a first one
C6_Witness == Len(results) >= 2

\* C7: every record of the store carries the simulation_date the run was
\* started with (today's date when the argument is None).
C7_RunDateOnEveryRecord ==
    \A i \in DOMAIN results :
        results[i].simulation_date = (IF date_arg = None THEN Today ELSE date_arg)

\* the workers inside save_result's critical section
InCriticalSection == { w \in Workers : w_pc[w] = "write" }

\* C8: append and file rewrite are one critical section under results_lock: at
\* most one worker is inside, it holds the lock and the last record of the list
\* is the one it appended; and a successful write stores exactly the list.
C8_OneCriticalSection ==
    /\ [](/\ Cardinality(InCriticalSection) <= 1
          /\ \A w \in InCriticalSection :
                /\ results_lock = w
                /\ Len(results) > 0
                /\ results[Len(results)] = w_wafer[w])
    /\ [][ \A w \in Workers : SaveWrite(w, "written") =>
              /\ results_file'.state = "ok"
              /\ results_file'.content = results'
              /\ results' = results ]_vars

\* C8 witness: two workers have been through the critical section, and the
\* file holds the records of both
C8_Witness ==
    /\ results_file.state = "ok"
    /\ Len(results_file.content) >= 2
    /\ results_file.content[1].machine # results_file.content[2].machine

\* a result for which a scorer call failed or the scorer was not initialised
Sentinel(r) ==
    r.analysed /\ (r.prediction_error # NoField \/ r.defect_count_error # NoField)

\* C9: when predict or count_defects raises, returns an invalid result or was
\* never initialised, the result gets the sentinel (class "Error" when predict
\* raised and "Unknown" otherwise, confidence 0; percentage 0), it is appended
\* to the store, and the worker goes on to its next iteration.
C9_ScoringFailureSentinel ==
    [][ \A w \in Workers :
          /\ \A pred \in PredictOutcomes, cnt \in CountOutcomes :
                (m_is_running[w] /\ WorkerProcessWafer(w, TRUE, TRUE, pred, cnt)) =>
                   /\ w_pc'[w] = "save"
                   /\ (predictor /\ pred = "raise") =>
                         (w_wafer'[w].defect_class = "Error" /\ w_wafer'[w].confidence = 0)
                   /\ (~predictor \/ pred = "invalid") =>
                         (w_wafer'[w].defect_class = "Unknown" /\ w_wafer'[w].confidence = 0)
                   /\ (~predictor \/ cnt \in {"raise", "invalid"}) =>
                         w_wafer'[w].defect_percentage = 0
          /\ (Sentinel(w_wafer[w]) /\ SaveAppend(w)) =>
                /\ Len(results') = Len(results) + 1
                /\ results'[Len(results')] = WithSimulationDate(w_wafer[w], simulation_date)
          /\ \A outcome \in WriteOutcomes :
                (Sentinel(w_wafer[w]) /\ SaveWrite(w, outcome)) => w_pc'[w] = "top" ]_vars

\* C9 witness: a sentinel result of each kind is in the store and its worker
\* is back at the top of its loop
C9_Witness ==
    \E i \in DOMAIN results :
        /\ results[i].defect_class = "Error"
        /\ results[i].defect_count_error # NoField
        /\ results[i].defect_percentage = 0
        /\ w_pc[results[i].machine] = "top"

\* C10: when the write of the result file fails, the record just appended
\* stays in the list, results_lock is released and the worker continues with
\* its next iteration.
C10_WriteFailureSwallowed ==
    [][ \A w \in Workers, outcome \in {"open_failed", "dump_failed"} :
          SaveWrite(w, outcome) =>
             /\ results' = results
             /\ results[Len(results)] = w_wafer[w]
             /\ results_lock' = NoOne
             /\ w_pc'[w] = "top" ]_vars

\* C11: no error inside a worker iteration ends the worker: a worker thread
\* never dies of an exception.
C11_NoErrorEndsWorker == \A w \in Workers : w_pc[w] # "dead"

\* the workers that are still inside machine_worker's while loop
InLoop == { w \in Workers : w_pc[w] \in {"top", "cap", "produce", "save", "write"} }

InFlight == { w \in Workers : w_pc[w] \in {"produce", "save"} }

\* C20: with max_wafers = k >= 1 the store never holds more than k + N - 1
\* records; once it holds k, the records still to come are at most those of the
\* workers that had already passed the cap check.
C20_AtMostOneInFlightEach ==
    max_wafers >= 1 =>
        /\ Len(results) <= max_wafers + N - 1
        /\ Len(results) >= max_wafers =>
              Len(results) + Cardinality(InFlight) <= max_wafers + N - 1

\* C20 witness: with two machines and a cap of one, the store holds k + N - 1 = 2
\* records and both workers have left their loops
C20_Witness ==
    /\ max_wafers = 1
    /\ Len(results) = max_wafers + N - 1
    /\ \A w \in Workers : w_pc[w] = "exit"

\* C13: on N >= 1 records get_summary_statistics returns total_wafers = N and
\* pass_count + fail_count = N, with pass_count the number of PASS records.
C13_SummaryCounts ==
    data # << >> =>
        LET stats == GetSummaryStatistics(data)
            Passed(r) == r.quality_status = "PASS"
        IN /\ stats.total_wafers = Len(data)
           /\ stats.pass_count + stats.fail_count = Len(data)
           /\ stats.pass_count = Len(SelectSeq(data, Passed))

\* C13 witness: the loaded data holds a PASS record, a FAIL record and a record
\* without quality_status
C13_Witness ==
    /\ \E i \in DOMAIN data : data[i].quality_status = "PASS"
    /\ \E i \in DOMAIN data : data[i].quality_status = "FAIL"
    /\ \E i \in DOMAIN data : data[i].quality_status = NoField

\* the date strings get_daily_statistics is asked for
DateArgs == {"2025-01-01", "2025-01-02", "2025-01-03"}

\* C14 as stated: on loaded data, get_daily_statistics(d) equals
\* get_summary_statistics() of an aggregator holding
\* filter_by_simulation_date(d), also when no record matches d.
C14_DailyEqualsFilteredSummary ==
    data # << >> =>
        \A date \in DateArgs :
            GetDailyStatistics(data, date)
                = GetSummaryStatistics(FilterBySimulationDate(data, date))

\* C14, amended: the two are equal when a record matches d; when none does,
\* each returns a dictionary whose only key is "error".
C14_DailyEqualsFilteredSummaryIfAny ==
    \A date \in DateArgs :
        LET daily == GetDailyStatistics(data, date)
            filtered == FilterBySimulationDate(data, date)
            summary == GetSummaryStatistics(filtered)
        IN IF filtered # << >>
           THEN daily = summary /\ daily.total_wafers = Len(filtered)
           ELSE DOMAIN daily = {"error"} /\ DOMAIN summary = {"error"}

\* C14 witness: the loaded data holds records of two dates and one without date
C14_Witness ==
    /\ \E i \in DOMAIN data : data[i].simulation_date = "2025-01-01"
    /\ \E i \in DOMAIN data : data[i].simulation_date = "2025-01-02"
    /\ \E i \in DOMAIN data : data[i].simulation_date = NoField

\* C15: get_anomalies(t) holds exactly the records with a defect_percentage
\* greater than t, by descending percentage, records of equal percentage in
\* their original order; it is [] when there is none.
C15_AnomaliesSortedStable ==
    \A t \in Thresholds :
        LET got == GetAnomalies(data, t)
            Anomalous(r) == r.defect_percentage # NoNum /\ r.defect_percentage > t
        IN /\ \A i \in DOMAIN got : Anomalous(got[i])
           /\ \A i, j \in DOMAIN got :
                 i < j => got[i].defect_percentage >= got[j].defect_percentage
           /\ \A p \in { data[i].defect_percentage : i \in DOMAIN data } :
                 LET AtP(r) == Anomalous(r) /\ r.defect_percentage = p
                 IN SelectSeq(got, AtP) = SelectSeq(data, AtP)
           /\ (\A i \in DOMAIN data : ~Anomalous(data[i])) => got = << >>

\* C15 witness: two different records of 60 % come behind a record of 41 % in
\* the loaded data, and a record without defect_percentage is loaded too
C15_Witness ==
    /\ \E i, j, k \in DOMAIN data :
          /\ i < j /\ j < k
          /\ data[i].defect_percentage = 41
          /\ data[j].defect_percentage = 60
          /\ data[k].defect_percentage = 60
          /\ data[j] # data[k]
    /\ \E i \in DOMAIN data : data[i].defect_percentage = NoNum

\* C16: load_results() replaces self.data: a second call on unchanged files
\* leaves the same record list and the same statistics as the first one.
C16_LoadIdempotent ==
    LET once == DataAfterLoad(data, results_dir)
        twice == DataAfterLoad(once, results_dir)
    IN /\ twice = once
       /\ GetSummaryStatistics(twice) = GetSummaryStatistics(once)
       /\ GetDefectDistribution(twice) = GetDefectDistribution(once)

\* C16 witness: the aggregator has loaded the records of both files and holds
\* exactly what the files hold
C16_Witness ==
    /\ data = LoadedFrom(results_dir)
    /\ results_dir[1].content # << >>
    /\ results_dir[2].content # << >>

\* C17: no aggregation function raises on a record with a missing or null
\* field, and a record without defect_percentage is left out of the percentage
\* mean, per date as in the summary.
C17_MalformedRecordsTolerated ==
    /\ ~GetAnomaliesRaises(data)
    /\ ~GetDateStatisticsRaises(data)
    /\ \A date \in DatesIn(data) :
          GetDateStatistics(data)[date].avg_defect_percentage
              = GetSummaryStatistics(FilterBySimulationDate(data, date)).average_defect_percentage

\* C18: on N >= 1 records the counts of get_defect_distribution sum to N, each
\* counted class has the percentage count / N * 100 rounded to two decimals,
\* and the percentages sum to 100 within rounding; without records the result
\* is empty.
C18_DistributionSumsTo100 ==
    LET dist == GetDefectDistribution(data)
    IN IF data = << >> THEN dist = << >>
       ELSE LET classes == DOMAIN dist.counts
                count_sum == SumOver(dist.counts, classes)
                pct_sum == SumOver(dist.percentages, classes)
            IN /\ count_sum = Len(data)
               /\ DOMAIN dist.percentages = classes
               /\ \A k \in classes :
                     LET off == dist.percentages[k] * Len(data) - dist.counts[k] * 10000
                     IN 2 * off <= Len(data) /\ 2 * off >= 0 - Len(data)
               /\ 2 * (pct_sum - 10000) <= Cardinality(classes)
               /\ 2 * (10000 - pct_sum) <= Cardinality(classes)

\* C18 witness: three records of three classes, so that the rounded
\* percentages (33.33 each) do not sum to 100 exactly
C18_Witness ==
    /\ Len(data) = 3
    /\ { DefectClassOf(data[i]) : i \in DOMAIN data } = {"Scratch", "Unknown", "Error"}

\* C19: for every date d, get_date_statistics()[d]['anomalies'] is the number
\* of records of date d among those get_anomalies() returns with its default
\* threshold.
C19_DateAnomaliesMatchGetAnomalies ==
    \A date \in DatesIn(data) :
        LET OnDate(r) == r.simulation_date = date
        IN GetDateStatistics(data)[date].anomalies
              = Len(SelectSeq(GetAnomalies(data, DefaultThresholdPercentage), OnDate))

\* C21: after the UI's stop_all_machines() has returned with no start
\* following, a process_wafer call returns nothing and changes no counter, and
\* a worker that reaches its loop test leaves the loop.
C21_NoWaferAfterStop ==
    [][ ui_pc = "returned" =>
          \A w \in Workers :
             /\ WorkerLoopTest(w) => w_pc'[w] = "exit"
             /\ \A pred \in PredictOutcomes, cnt \in CountOutcomes :
                   WorkerProcessWafer(w, TRUE, TRUE, pred, cnt) =>
                      /\ wafer_counter' = wafer_counter
                      /\ processed_wafers' = processed_wafers
                      /\ w_pc'[w] = "top" ]_vars

\* C22: for every max_wafers that is set (0 included), a worker whose cap check
\* sees len(results) >= max_wafers leaves its loop.
C22_SetCapAlwaysChecked ==
    [][ \A w \in Workers :
          (WorkerCapCheck(w) /\ max_wafers # NoCap /\ Len(results) >= max_wafers)
             => w_pc'[w] = "exit" ]_vars

\* C23: the sequence numbers of one machine's records are strictly increasing
\* along the result store.
C23_SequenceNumbersIncrease ==
    \A i, j \in DOMAIN results :
        (i < j /\ results[i].machine = results[j].machine)
            => results[i].wafer_id[3] < results[j].wafer_id[3]

\* C23 witness: the store holds two records of one machine
C23_Witness ==
    \E i, j \in DOMAIN results : i < j /\ results[i].machine = results[j].machine

IsPrefix(p, q) == Len(p) <= Len(q) /\ SubSeq(q, 1, Len(p)) = p

\* C26: the content of a whole result file is a prefix of the in-memory list,
\* and a successful write stores the whole list, the records of earlier failed
\* writes included.
C26_FileIsPrefixOfList ==
    /\ [](results_file.state = "ok" => IsPrefix(results_file.content, results))
    /\ [][ \A w \in Workers :
              SaveWrite(w, "written") =>
                 /\ results_file'.content = results
                 /\ \A i \in DOMAIN results :
                       \E j \in DOMAIN results_file'.content :
                          results_file'.content[j] = results[i] ]_vars

\* C26 witness: a write has failed after a successful one: the file holds one
\* record and the list two
C26_Witness ==
    /\ results_file.state = "ok"
    /\ Len(results_file.content) = 1
    /\ Len(results) = 2

\* the records of machine w in a list
RecordsOf(list, w) == { i \in DOMAIN list : list[i].machine = w }

\* C28: for every machine, store records <= processed_wafers <= wafer_counter
\* with at most one wafer in flight; no counter decreases; once all workers
\* have finished, processed_wafers sum up to len(results).
C28_CountersAgreeWithStore ==
    /\ [](\A w \in Workers :
             /\ Cardinality(RecordsOf(results, w)) <= processed_wafers[w]
             /\ processed_wafers[w] <= wafer_counter[w]
             /\ processed_wafers[w] - Cardinality(RecordsOf(results, w)) <= 1)
    /\ []((\A w \in Workers : w_pc[w] \in {"exit", "dead"})
             => SumOver(processed_wafers, Workers) = Len(results))
    /\ [][ \A w \in Workers :
              /\ wafer_counter'[w] >= wafer_counter[w]
              /\ processed_wafers'[w] >= processed_wafers[w] ]_vars

\* C28 witness: all workers have finished, a record is stored, and an image
\* generation has failed (wafer_counter is ahead of processed_wafers)
C28_Witness ==
    /\ \A w \in Workers : w_pc[w] \in {"exit", "dead"}
    /\ Len(results) >= 1
    /\ \E w \in Workers : wafer_counter[w] > processed_wafers[w]

\* C25: for loaded pipeline records, get_anomalies(40.0) holds exactly the
\* records whose quality_status is FAIL, and fail_count is its length.
C25_AnomaliesAreTheFails ==
    LET anomalies == GetAnomalies(data, DEFECT_PERCENTAGE_THRESHOLD)
        IsFail(r) == r.quality_status = "FAIL"
    IN data # << >> =>
          /\ \A i \in DOMAIN anomalies : IsFail(anomalies[i])
          /\ Len(anomalies) = Len(SelectSeq(data, IsFail))
          /\ GetSummaryStatistics(data).fail_count = Len(anomalies)

\* C29: format_for_llm on an aggregator without data returns a report.
C29_EmptyReportWithoutData ==
    data = << >> => "raised" \notin DOMAIN FormatForLlm(data)

\* C30: after every load_results() call df holds the rows of data.
C30_FrameFollowsData ==
    [][LoadResults => df' = data']_vars

\* C27: what an aggregator has loaded from the result file of a running
\* simulation is empty or a prefix of the controller's result list: no foreign
\* record, no duplicate, no other order.
C27_LoadedIsPrefixOfList ==
    /\ IsPrefix(data, results)
    /\ \A i, j \in DOMAIN data : data[i].wafer_id = data[j].wafer_id => i = j

\* C27 witness: the aggregator holds one record of the two the controller has,
\* the two coming from different machines
C27_Witness ==
    /\ Len(data) = 1
    /\ Len(results) = 2
    /\ results[1].machine # results[2].machine

\* C24: run_simulation, once called, returns, whether or not the workers leave
\* their loops; and when sleeping workers wake up, every worker leaves its loop
\* after the controller was stopped or the duration has elapsed.
C24_RunSimulationTerminates ==
    /\ (rs_pc # "idle") ~> (rs_pc = "done")
    /\ WorkersWake =>
          \A w \in FairWorkers :
             (w_pc[w] # "none" /\ (~is_running \/ ~(now < end_time)))
                ~> (w_pc[w] \in {"exit", "dead"})

\* C24 witness: run_simulation has returned while a worker is still in its loop
C24_Witness ==
    /\ rs_pc = "done"
    /\ \E w \in Workers : w_pc[w] = "top"

====
